---- MODULE Spec2Model ----
(***************************************************************************)
(* The REST API of the music-label database (src/Archivos/APP.py): every   *)
(* Flask handler as one action over the relational store, the JSON body    *)
(* it is given and the behaviour of the connection it opens; and the data  *)
(* generator (src/Archivos/SEED_DATA.py): one action per statement of a    *)
(* generate_all run on the same store.                                     *)
(***************************************************************************)
EXTENDS Integers, Sequences, FiniteSets, TLC

VARIABLES db, request, response, gen, stats

vars == <<db, request, response, gen, stats>>

(***************************************************************************)
(* Bounds of the model.                                                    *)
(***************************************************************************)
\* Identifiers a serial table (artist, album, producer, contract) hands out.
MaxId == 2
\* Song numbers (song_id) used within one album.
MaxSongId == 2
\* Rows inserted in all tables together: by the specification of the writing
\* handlers, of the reading handlers and of the failing connections.
MaxRowsCrud == 3
MaxRowsRead == 4
MaxRowsFault == 1
\* The scale of a generator run: the artists, staff, engineers, managers and
\* contracts it generates.
MaxGen == 1

(***************************************************************************)
(* Program constants.                                                      *)
(***************************************************************************)
ArtistListCap == 100
AlbumListCap == 100
SongListCap == 200
HitListCap == 50
ProducerListCap == 100
HitThreshold == 1000000
ManagerSpan == 10

(***************************************************************************)
(* JSON bodies as request.get_json() returns them: a dict, a list, a str,  *)
(* a number or None.  A list or a str is kept as the set of field names    *)
(* for which Python's "field in data" is true.                             *)
(***************************************************************************)
NoFields == [f \in {} |-> ""]

JsonObject(fields) == [kind |-> "object", fields |-> fields, items |-> {}]

JsonArray(items) == [kind |-> "array", fields |-> NoFields, items |-> items]

JsonString(items) == [kind |-> "string", fields |-> NoFields, items |-> items]

JsonNumber == [kind |-> "number", fields |-> NoFields, items |-> {}]

JsonNull == [kind |-> "null", fields |-> NoFields, items |-> {}]

\* "field in data" raises TypeError when data is None or a number.
InRaises(data) == data.kind \in {"null", "number"}

\* "field in data" for a dict (key), a list (element) or a str (substring).
Has(data, field) ==
    IF data.kind = "object" THEN field \in DOMAIN data.fields
    ELSE field \in data.items

\* data[field] with a str key raises TypeError unless data is a dict.
Subscriptable(data) == data.kind = "object"

\* data.get(field, default) that hands back the default for a supplied field too.
GetOrIgnoresSupplied(data, field, default) == default

\* data.get(field, default)
GetOr(data, field, default) ==
    IF field \in DOMAIN data.fields THEN data.fields[field] ELSE default

(***************************************************************************)
(* The store.  A table is a function from its key to the row's columns.    *)
(***************************************************************************)
EmptyTable == [k \in {} |-> 0]

EmptyDb ==
    [artist |-> EmptyTable, album |-> EmptyTable, song |-> EmptyTable,
     producer |-> EmptyTable, contract |-> EmptyTable,
     song_distribution |-> EmptyTable,
     studio |-> EmptyTable, staff |-> EmptyTable, engineer |-> EmptyTable,
     manager |-> EmptyTable, distribution |-> EmptyTable,
     recording_session |-> EmptyTable, artist_album |-> EmptyTable,
     hit_trigger |-> TRUE,
     seq |-> [artist |-> 0, album |-> 0, producer |-> 0, contract |-> 0,
              studio |-> 0, staff |-> 0, distribution |-> 0,
              recording_session |-> 0]]

Put(table, key, row) == [k \in DOMAIN table \cup {key} |-> IF k = key THEN row ELSE table[k]]

Drop(table, keys) == [k \in DOMAIN table \ keys |-> table[k]]

\* How a connection behaves for one request: where it fails, and whether the
\* rollback issued by the handler's except block fails too.
NoFault == [at |-> "none", rollback |-> FALSE]

Faults ==
    {NoFault, [at |-> "connect", rollback |-> FALSE]}
    \cup [at : {"cursor", "execute", "commit"}, rollback : BOOLEAN]

(***************************************************************************)
(* What a handler hands back to Flask: a response, or an exception that    *)
(* leaves the handler and is answered by the 500 error handler.  opened    *)
(* and closed count the connections the request opened and closed.         *)
(***************************************************************************)
Err(message) == [error |-> message]

Reply(d, status, body, opened, closed) ==
    [db |-> d, status |-> status, body |-> body, raised |-> "none",
     opened |-> opened, closed |-> closed]

internal_error == Err("Error interno del servidor")

not_found == Err("Endpoint no encontrado")

Raise(d, exception, opened, closed) ==
    [db |-> d, status |-> 500, body |-> internal_error, raised |-> exception,
     opened |-> opened, closed |-> closed]

(***************************************************************************)
(* execute_query(query, params, fetch_one) for a SELECT whose result set   *)
(* on the current store is rows.  None is returned when no connection is   *)
(* obtained, when the statement fails and is rolled back, and by fetchone  *)
(* on an empty result set.  A failing rollback leaves the except block as  *)
(* an exception; the finally block closes the connection in every case.    *)
(***************************************************************************)
PyNone(opened, closed) ==
    [outcome |-> "return", isNone |-> TRUE, value |-> <<>>,
     opened |-> opened, closed |-> closed]

execute_query(env, rows, fetch_one) ==
    IF env.at = "connect" THEN PyNone(0, 0)
    ELSE IF env.at \in {"cursor", "execute"} THEN
        IF env.rollback
        THEN [outcome |-> "raise", isNone |-> FALSE, value |-> <<>>,
              opened |-> 1, closed |-> 1]
        ELSE PyNone(1, 1)
    ELSE IF fetch_one THEN
        IF rows = <<>> THEN PyNone(1, 1)
        ELSE [outcome |-> "return", isNone |-> FALSE, value |-> rows[1],
              opened |-> 1, closed |-> 1]
    ELSE [outcome |-> "return", isNone |-> FALSE, value |-> rows,
          opened |-> 1, closed |-> 1]

(***************************************************************************)
(* The connection block shared by the writing handlers:                    *)
(*   conn = get_db_connection(); if not conn: return 500                   *)
(*   try: cur = conn.cursor(); cur.execute(); conn.commit(); return ok     *)
(*   except: conn.rollback(); return 400                                   *)
(*   finally: cur.close(); conn.close()                                    *)
(* st is what the statement does to the store: st.ok is FALSE when the     *)
(* store rejects it (cur.execute raises).  When conn.cursor() raises, cur  *)
(* is unbound in the finally block: cur.close() raises UnboundLocalError   *)
(* and conn.close() is never reached.                                      *)
(***************************************************************************)
Transact(d, env, st, okStatus, okBody) ==
    IF env.at = "connect" THEN Reply(d, 500, Err("Error de conexion"), 0, 0)
    ELSE IF env.at = "cursor" THEN Raise(d, "UnboundLocalError", 1, 0)
    ELSE IF env.at \in {"execute", "commit"} \/ ~st.ok THEN
        IF env.rollback THEN Raise(d, "DatabaseError", 1, 1)
        ELSE Reply(d, 400, Err("str(e)"), 1, 1)
    ELSE Reply(st.db, okStatus, okBody, 1, 1)

(***************************************************************************)
(* ORDER BY and LIMIT.  Rows with equal keys come in any order.            *)
(***************************************************************************)
\* before holds the pairs <<a, b>> of rows of S whose keys put a ahead of b.
Orderings(S, before) ==
    LET n == Cardinality(S)
    IN {s \in [1..n -> S] :
          /\ \A i, j \in 1..n : i # j => s[i] # s[j]
          /\ \A i, j \in 1..n : i < j => <<s[j], s[i]>> \notin before}

Limit(rows, cap) == SubSeq(rows, 1, IF Len(rows) < cap THEN Len(rows) ELSE cap)

\* The collation of the names the model uses.
Collate(name) == CASE name = "A" -> 1 [] name = "B" -> 2 [] OTHER -> 3

(***************************************************************************)
(* Artist                                                                  *)
(***************************************************************************)
ArtistRow(d, id) == [artist_id |-> id] @@ d.artist[id]

\* SELECT ... FROM artist ORDER BY name LIMIT 100
SelectArtists(d) ==
    LET rows == {ArtistRow(d, id) : id \in DOMAIN d.artist}
    IN {Limit(s, ArtistListCap) :
          s \in Orderings(rows, {p \in rows \X rows :
                                   Collate(p[1].name) < Collate(p[2].name)})}

\* SELECT ... FROM artist WHERE artist_id = %s
SelectArtist(d, id) ==
    IF id \in DOMAIN d.artist THEN <<ArtistRow(d, id)>> ELSE <<>>

\* INSERT INTO artist (...) VALUES (...) RETURNING artist_id
InsertArtist(d, params) ==
    LET id == d.seq.artist + 1
    IN [ok |-> TRUE, id |-> id,
        db |-> [d EXCEPT !.artist = Put(d.artist, id, params), !.seq.artist = id]]

\* UPDATE artist SET <updates> WHERE artist_id = %s
UpdateArtist(d, id, updates) ==
    [ok |-> TRUE,
     db |-> IF id \in DOMAIN d.artist
            THEN [d EXCEPT !.artist[id] = updates @@ d.artist[id]]
            ELSE d]

\* DELETE FROM artist WHERE artist_id = %s (the contracts of the artist go with it)
DeleteArtist(d, id) ==
    [ok |-> TRUE,
     db |-> [d EXCEPT !.artist = Drop(d.artist, {id}),
                      !.contract = Drop(d.contract,
                          {c \in DOMAIN d.contract : d.contract[c].artist_id = id})]]

get_artists(d, env, rows) ==
    LET result == execute_query(env, rows, FALSE)
    IN IF result.outcome = "raise"
       THEN Raise(d, "DatabaseError", result.opened, result.closed)
       ELSE IF result.isNone
       THEN Reply(d, 500, Err("Error al obtener artistas"), result.opened, result.closed)
       ELSE Reply(d, 200, [rows |-> result.value], result.opened, result.closed)

get_artist(d, env, artist_id) ==
    LET result == execute_query(env, SelectArtist(d, artist_id), TRUE)
    IN IF result.outcome = "raise"
       THEN Raise(d, "DatabaseError", result.opened, result.closed)
       ELSE IF result.isNone
       THEN Reply(d, 404, Err("Artista no encontrado"), result.opened, result.closed)
       ELSE Reply(d, 200, result.value, result.opened, result.closed)

ArtistRequired == {"name", "genre", "contract_date", "nationality"}

create_artist(d, env, data) ==
    IF InRaises(data) THEN Raise(d, "TypeError", 0, 0)
    ELSE IF ~ \A field \in ArtistRequired : Has(data, field)
    THEN Reply(d, 400, Err("Campos requeridos faltantes"), 0, 0)
    ELSE IF ~Subscriptable(data) THEN Raise(d, "TypeError", 0, 0)
    ELSE LET params == [name |-> data.fields["name"],
                        genre |-> data.fields["genre"],
                        contract_date |-> data.fields["contract_date"],
                        contract_status |-> GetOr(data, "contract_status", "active"),
                        biography |-> GetOr(data, "biography", ""),
                        nationality |-> data.fields["nationality"]]
             st == InsertArtist(d, params)
         IN Transact(d, env, st, 201,
                     [artist_id |-> st.id, message |-> "Artista creado exitosamente"])

\* An allow-list that lets contract_date through.
ArtistAllowedWithContractDate ==
    {"name", "genre", "contract_status", "biography", "nationality", "contract_date"}

ArtistAllowed == {"name", "genre", "contract_status", "biography", "nationality"}

update_artist(d, env, artist_id, data) ==
    IF InRaises(data) THEN Raise(d, "TypeError", 0, 0)
    ELSE LET present == {field \in ArtistAllowed : Has(data, field)}
         IN IF present # {} /\ ~Subscriptable(data) THEN Raise(d, "TypeError", 0, 0)
            ELSE IF present = {}
            THEN Reply(d, 400, Err("No hay campos para actualizar"), 0, 0)
            ELSE LET updates == [field \in present |-> data.fields[field]]
                 IN Transact(d, env, UpdateArtist(d, artist_id, updates), 200,
                             [message |-> "Artista actualizado exitosamente"])

delete_artist(d, env, artist_id) ==
    Transact(d, env, DeleteArtist(d, artist_id), 200,
             [message |-> "Artista eliminado exitosamente"])

(***************************************************************************)
(* Album                                                                   *)
(***************************************************************************)
\* album a LEFT JOIN producer p ON a.producer_id = p.producer_id
AlbumRow(d, id) ==
    [album_id |-> id,
     producer_name |-> IF d.album[id].producer_id \in DOMAIN d.producer
                       THEN d.producer[d.album[id].producer_id].name
                       ELSE "null"]
    @@ d.album[id]

\* SELECT ... ORDER BY a.release_date DESC LIMIT 100
SelectAlbums(d) ==
    LET rows == {AlbumRow(d, id) : id \in DOMAIN d.album}
    IN {Limit(s, AlbumListCap) :
          s \in Orderings(rows, {p \in rows \X rows :
                                   p[1].release_date > p[2].release_date})}

\* SELECT ... WHERE a.album_id = %s
SelectAlbum(d, id) ==
    IF id \in DOMAIN d.album THEN <<AlbumRow(d, id)>> ELSE <<>>

\* The foreign key of album.producer_id.
AlbumAccepted(d, params) == params.producer_id \in DOMAIN d.producer

\* INSERT INTO album (...) VALUES (...) RETURNING album_id
InsertAlbum(d, params) ==
    LET id == d.seq.album + 1
    IN [ok |-> AlbumAccepted(d, params), id |-> id,
        db |-> [d EXCEPT !.album = Put(d.album, id, params), !.seq.album = id]]

\* UPDATE album SET <updates> WHERE album_id = %s
UpdateAlbum(d, id, updates) ==
    [ok |-> TRUE,
     db |-> IF id \in DOMAIN d.album
            THEN [d EXCEPT !.album[id] = updates @@ d.album[id]]
            ELSE d]

get_albums(d, env, rows) ==
    LET result == execute_query(env, rows, FALSE)
    IN IF result.outcome = "raise"
       THEN Raise(d, "DatabaseError", result.opened, result.closed)
       ELSE IF result.isNone
       THEN Reply(d, 500, Err("Error al obtener albumes"), result.opened, result.closed)
       ELSE Reply(d, 200, [rows |-> result.value], result.opened, result.closed)

get_album(d, env, album_id) ==
    LET result == execute_query(env, SelectAlbum(d, album_id), TRUE)
    IN IF result.outcome = "raise"
       THEN Raise(d, "DatabaseError", result.opened, result.closed)
       ELSE IF result.isNone
       THEN Reply(d, 404, Err("Album no encontrado"), result.opened, result.closed)
       ELSE Reply(d, 200, result.value, result.opened, result.closed)

AlbumRequired == {"title", "release_date", "producer_id", "genre"}

create_album(d, env, data) ==
    IF InRaises(data) THEN Raise(d, "TypeError", 0, 0)
    ELSE IF ~ \A field \in AlbumRequired : Has(data, field)
    THEN Reply(d, 400, Err("Campos requeridos faltantes"), 0, 0)
    ELSE IF ~Subscriptable(data) THEN Raise(d, "TypeError", 0, 0)
    ELSE LET params == [title |-> data.fields["title"],
                        release_date |-> data.fields["release_date"],
                        producer_id |-> data.fields["producer_id"],
                        status |-> GetOr(data, "status", "draft"),
                        genre |-> data.fields["genre"],
                        label_name |-> GetOr(data, "label_name", "")]
             st == InsertAlbum(d, params)
         IN Transact(d, env, st, 201,
                     [album_id |-> st.id, message |-> "Album creado exitosamente"])

\* An allow-list that lets release_date through.
AlbumAllowedWithReleaseDate == {"title", "status", "genre", "label_name", "release_date"}

AlbumAllowed == {"title", "status", "genre", "label_name"}

update_album(d, env, album_id, data) ==
    IF InRaises(data) THEN Raise(d, "TypeError", 0, 0)
    ELSE LET present == {field \in AlbumAllowed : Has(data, field)}
         IN IF present # {} /\ ~Subscriptable(data) THEN Raise(d, "TypeError", 0, 0)
            ELSE IF present = {}
            THEN Reply(d, 400, Err("No hay campos para actualizar"), 0, 0)
            ELSE LET updates == [field \in present |-> data.fields[field]]
                 IN Transact(d, env, UpdateAlbum(d, album_id, updates), 200,
                             [message |-> "Album actualizado exitosamente"])

(***************************************************************************)
(* Song: the weak entity keyed by <<album_id, song_id>>.                   *)
(***************************************************************************)
\* song s JOIN album a ON s.album_id = a.album_id
SongRow(d, key) ==
    [album_id |-> key[1], song_id |-> key[2],
     album_title |-> d.album[key[1]].title]
    @@ d.song[key]

SongBefore(a, b) ==
    \/ a.album_id < b.album_id
    \/ a.album_id = b.album_id /\ a.song_id < b.song_id

\* The album_id query parameter as the WHERE clause compares it: the text of
\* an integer, or a text the store cannot read as one (0).
AlbumIdOf(text) ==
    CASE text = "1" -> 1 [] text = "2" -> 2 [] text = "3" -> 3 [] OTHER -> 0

\* SELECT ... [WHERE s.album_id = %s] ORDER BY s.album_id, s.song_id LIMIT 200
\* album_id is the query parameter; "" stands for an absent or empty one.
SelectSongs(d, album_id) ==
    LET joined == {key \in DOMAIN d.song : key[1] \in DOMAIN d.album}
        kept == IF album_id = "" THEN joined
                ELSE {key \in joined : key[1] = AlbumIdOf(album_id)}
        rows == {SongRow(d, key) : key \in kept}
    IN {Limit(s, SongListCap) :
          s \in Orderings(rows, {p \in rows \X rows : SongBefore(p[1], p[2])})}

\* The hit-songs view: is_hit songs with the number of their platforms.
HitRow(d, key) ==
    [song_id |-> key[2], album_id |-> key[1], title |-> d.song[key].title,
     streams_count |-> d.song[key].streams_count,
     album_title |-> d.album[key[1]].title,
     num_platforms |-> Cardinality({sd \in DOMAIN d.song_distribution :
                                      sd[1] = key[1] /\ sd[2] = key[2]})]

\* SELECT ... WHERE s.is_hit = TRUE ... ORDER BY s.streams_count DESC LIMIT 50
SelectHitSongs(d) ==
    LET hits == {key \in DOMAIN d.song :
                   key[1] \in DOMAIN d.album /\ d.song[key].is_hit}
        rows == {HitRow(d, key) : key \in hits}
    IN {Limit(s, HitListCap) :
          s \in Orderings(rows, {p \in rows \X rows :
                                   p[1].streams_count > p[2].streams_count})}

\* The primary key (album_id, song_id) and the foreign key of song.album_id.
SongAccepted(d, key) == key \notin DOMAIN d.song /\ key[1] \in DOMAIN d.album

\* INSERT INTO song (...) VALUES (...) RETURNING song_id, album_id
InsertSong(d, key, params) ==
    [ok |-> SongAccepted(d, key),
     db |-> [d EXCEPT !.song = Put(d.song, key, params)]]

\* A query parameter the store cannot compare with an integer makes
\* cur.execute raise.
get_songs(d, env, album_id, rows) ==
    LET bad == album_id # "" /\ AlbumIdOf(album_id) = 0
        e == IF bad /\ env.at \in {"none", "commit"}
             THEN [env EXCEPT !.at = "execute"] ELSE env
        result == execute_query(e, rows, FALSE)
    IN IF result.outcome = "raise"
       THEN Raise(d, "DatabaseError", result.opened, result.closed)
       ELSE IF result.isNone
       THEN Reply(d, 500, Err("Error al obtener canciones"), result.opened, result.closed)
       ELSE Reply(d, 200, [rows |-> result.value], result.opened, result.closed)

get_hit_songs(d, env, rows) ==
    LET result == execute_query(env, rows, FALSE)
    IN IF result.outcome = "raise"
       THEN Raise(d, "DatabaseError", result.opened, result.closed)
       ELSE IF result.isNone
       THEN Reply(d, 500, Err("Error al obtener canciones hit"), result.opened, result.closed)
       ELSE Reply(d, 200, [rows |-> result.value], result.opened, result.closed)

\* No route matches GET /api/songs/<id>: Flask answers with the 404 handler.
get_song(d, album_id, song_id) == Reply(d, 404, not_found, 0, 0)

SongRequired == {"album_id", "song_id", "title", "duration", "composer"}

create_song(d, env, data) ==
    IF InRaises(data) THEN Raise(d, "TypeError", 0, 0)
    ELSE IF ~ \A field \in SongRequired : Has(data, field)
    THEN Reply(d, 400, Err("Campos requeridos faltantes"), 0, 0)
    ELSE IF ~Subscriptable(data) THEN Raise(d, "TypeError", 0, 0)
    ELSE LET key == <<data.fields["album_id"], data.fields["song_id"]>>
             params == [title |-> data.fields["title"],
                        duration |-> data.fields["duration"],
                        composer |-> data.fields["composer"],
                        streams_count |-> GetOr(data, "streams_count", 0),
                        is_hit |-> GetOr(data, "is_hit", FALSE)]
         IN Transact(d, env, InsertSong(d, key, params), 201,
                     [song_id |-> key[2], album_id |-> key[1],
                      message |-> "Cancion creada exitosamente"])

(***************************************************************************)
(* Producer                                                                *)
(***************************************************************************)
\* producer p LEFT JOIN album a ... COUNT(DISTINCT a.album_id) as num_albums
ProducerListRow(d, id) ==
    [producer_id |-> id,
     num_albums |-> Cardinality({a \in DOMAIN d.album : d.album[a].producer_id = id})]
    @@ d.producer[id]

\* The producers ordered by name instead.
SelectProducersByName(d) ==
    LET rows == {ProducerListRow(d, id) : id \in DOMAIN d.producer}
    IN {Limit(s, ProducerListCap) :
          s \in Orderings(rows, {p \in rows \X rows :
                                   Collate(p[1].name) < Collate(p[2].name)})}

\* SELECT ... GROUP BY ... ORDER BY num_albums DESC LIMIT 100
SelectProducers(d) ==
    LET rows == {ProducerListRow(d, id) : id \in DOMAIN d.producer}
    IN {Limit(s, ProducerListCap) :
          s \in Orderings(rows, {p \in rows \X rows :
                                   p[1].num_albums > p[2].num_albums})}

\* SELECT ... FROM producer p WHERE p.producer_id = %s
SelectProducer(d, id) ==
    IF id \in DOMAIN d.producer
    THEN <<[producer_id |-> id] @@ d.producer[id]>> ELSE <<>>

get_producers(d, env, rows) ==
    LET result == execute_query(env, rows, FALSE)
    IN IF result.outcome = "raise"
       THEN Raise(d, "DatabaseError", result.opened, result.closed)
       ELSE IF result.isNone
       THEN Reply(d, 500, Err("Error al obtener productores"), result.opened, result.closed)
       ELSE Reply(d, 200, [rows |-> result.value], result.opened, result.closed)

get_producer(d, env, producer_id) ==
    LET result == execute_query(env, SelectProducer(d, producer_id), TRUE)
    IN IF result.outcome = "raise"
       THEN Raise(d, "DatabaseError", result.opened, result.closed)
       ELSE IF result.isNone
       THEN Reply(d, 404, Err("Productor no encontrado"), result.opened, result.closed)
       ELSE Reply(d, 200, result.value, result.opened, result.closed)

(***************************************************************************)
(* Statistics and health                                                   *)
(***************************************************************************)
RECURSIVE SumStreams(_, _)
SumStreams(d, keys) ==
    IF keys = {} THEN 0
    ELSE LET key == CHOOSE k \in keys : TRUE
         IN d.song[key].streams_count + SumStreams(d, keys \ {key})

\* The active contracts counted instead of the distinct artists holding them.
ActiveContracts(d) ==
    {c \in DOMAIN d.contract :
       d.contract[c].artist_id \in DOMAIN d.artist /\ d.contract[c].status = "active"}

\* COUNT(DISTINCT a.artist_id) FROM artist a JOIN contract c
\*   ON a.artist_id = c.artist_id AND c.status = 'active'
ActiveArtists(d) ==
    {a \in DOMAIN d.artist :
       \E c \in DOMAIN d.contract :
          d.contract[c].artist_id = a /\ d.contract[c].status = "active"}

\* The six result sets of get_stats, in the order of its queries.  SUM over
\* no rows is NULL.
StatsQueries(d) ==
    <<  <<[count |-> Cardinality(DOMAIN d.artist)]>>,
        <<[count |-> Cardinality(DOMAIN d.album)]>>,
        <<[count |-> Cardinality(DOMAIN d.song)]>>,
        <<[count |-> Cardinality({k \in DOMAIN d.song : d.song[k].is_hit})]>>,
        <<[null |-> DOMAIN d.song = {}, total |-> SumStreams(d, DOMAIN d.song)]>>,
        <<[count |-> Cardinality(ActiveArtists(d))]>>  >>

RECURSIVE Total(_, _, _)
Total(results, field, n) ==
    IF n = 0 THEN 0 ELSE results[n][field] + Total(results, field, n - 1)

\* What get_stats makes of the results of its six calls of execute_query:
\* "result['count'] if result else 0" turns a failed query into a zero.
StatsReply(d, results) ==
    LET raising == {k \in 1..6 : results[k].outcome = "raise"}
        first == CHOOSE k \in raising : \A j \in raising : k <= j
        Count(k) == IF results[k].isNone THEN 0 ELSE results[k].value.count
        streams == IF results[5].isNone \/ results[5].value.null
                      \/ results[5].value.total = 0
                   THEN 0 ELSE results[5].value.total
    IN IF raising # {}
       THEN Raise(d, "DatabaseError", Total(results, "opened", first),
                  Total(results, "closed", first))
       ELSE Reply(d, 200,
                  [total_artists |-> Count(1), total_albums |-> Count(2),
                   total_songs |-> Count(3), total_hits |-> Count(4),
                   total_streams |-> streams, active_artists |-> Count(6)],
                  Total(results, "opened", 6), Total(results, "closed", 6))

\* Six calls of execute_query, each on a connection of its own (envs[k]),
\* with no other writer of the store between them.
get_stats(d, envs) ==
    StatsReply(d, [k \in 1..6 |-> execute_query(envs[k], StatsQueries(d)[k], TRUE)])

health(d, env) ==
    IF env.at = "connect"
    THEN Reply(d, 500, [status |-> "unhealthy", database |-> "disconnected"], 0, 0)
    ELSE Reply(d, 200, [status |-> "healthy", database |-> "connected"], 1, 1)

index(d) ==
    Reply(d, 200, [message |-> "API REST - Gestion de Hits Musicales en Discografica",
                   version |-> "1.0"], 0, 0)

(***************************************************************************)
(* Rows the data generator inserts into the tables the API only reads.     *)
(***************************************************************************)
\* INSERT INTO producer (...) VALUES (...) RETURNING producer_id
InsertProducer(d, params) ==
    LET id == d.seq.producer + 1
    IN [d EXCEPT !.producer = Put(d.producer, id, params), !.seq.producer = id]

\* The natural key of a contract.
ContractKey(row) == <<row.artist_id, row.start_date>>

\* INSERT INTO contract (...) VALUES (...) ON CONFLICT DO NOTHING
\* The serial contract_id is drawn before the conflict is found.
InsertContract(d, params) ==
    LET id == d.seq.contract + 1
    IN IF \E c \in DOMAIN d.contract : ContractKey(d.contract[c]) = ContractKey(params)
       THEN [d EXCEPT !.seq.contract = id]
       ELSE [d EXCEPT !.contract = Put(d.contract, id, params), !.seq.contract = id]

\* is_hit = streams_count >= 1000000
\* INSERT INTO song (...) VALUES (...) ON CONFLICT DO NOTHING
GenerateSong(d, key, title, streams_count) ==
    IF key \in DOMAIN d.song THEN d
    ELSE [d EXCEPT !.song = Put(d.song, key,
             [title |-> title, duration |-> 120, composer |-> "composer",
              streams_count |-> streams_count,
              is_hit |-> streams_count >= HitThreshold])]

(***************************************************************************)
(* The bodies, parameters and connection behaviours the requests are drawn *)
(* from.                                                                   *)
(***************************************************************************)
ArtistBodies ==
    {JsonObject([name |-> "A", genre |-> "rock", contract_date |-> "2020-01-01",
                 nationality |-> "Spain"]),
     JsonObject([name |-> "B", genre |-> "pop", contract_date |-> "2021-06-30",
                 nationality |-> "Chile", contract_status |-> "inactive",
                 biography |-> "bio", artist_id |-> 9]),
     JsonObject([name |-> "A", genre |-> "rock", contract_date |-> "2020-01-01"]),
     JsonNull, JsonNumber, JsonArray(ArtistRequired)}

ArtistUpdates ==
    {JsonObject([name |-> "C", biography |-> "new", artist_id |-> 9,
                 contract_date |-> "1999-01-01"]),
     JsonObject([artist_id |-> 9, contract_date |-> "1999-01-01"]),
     JsonObject(NoFields), JsonNull, JsonArray({"name"})}

AlbumBodies ==
    {JsonObject([title |-> "T1", release_date |-> 20200101, producer_id |-> 1,
                 genre |-> "rock"]),
     JsonObject([title |-> "T2", release_date |-> 20210630, producer_id |-> 2,
                 genre |-> "pop", status |-> "released", label_name |-> "L",
                 album_id |-> 9]),
     JsonObject([title |-> "T1", release_date |-> 20200101, genre |-> "rock"]),
     JsonObject(NoFields), JsonNull, JsonArray(AlbumRequired)}

AlbumUpdates ==
    {JsonObject([title |-> "T3", status |-> "archived", album_id |-> 9,
                 release_date |-> 19990101, producer_id |-> 2]),
     JsonObject([album_id |-> 9, release_date |-> 19990101, producer_id |-> 2]),
     JsonObject(NoFields), JsonArray({}), JsonString({"title"})}

SongBodies ==
    {JsonObject([album_id |-> a, song_id |-> 1, title |-> "S1", duration |-> 200,
                 composer |-> "composer"]) : a \in 1..MaxId}
    \cup
    {JsonObject([album_id |-> 1, song_id |-> 1, title |-> "S2", duration |-> 300,
                 composer |-> "composer", streams_count |-> 5000000,
                 is_hit |-> TRUE]),
     JsonObject([album_id |-> 1, song_id |-> 1, title |-> "S1", duration |-> 200]),
     JsonString({}), JsonNull, JsonArray(SongRequired)}

ProducerRows ==
    {[name |-> "A", specialty |-> "Pop", years_experience |-> 1,
      email |-> "a@example.org", phone |-> "1"],
     [name |-> "B", specialty |-> "Rock", years_experience |-> 40,
      email |-> "b@example.org", phone |-> "2"]}

ContractStatuses == {"active", "expired"}

StartDates == {20200101, 20210630}

StreamCounts == {0, 1000000, 5000000}

AlbumIdParams == {"", "1", "2", "x"}

Ids == 1..MaxId

Unreachable == [at |-> "connect", rollback |-> FALSE]

Rejected == [at |-> "execute", rollback |-> FALSE]

\* The store answers, or cannot be reached.
ReadEnvs == {NoFault, Unreachable}

\* The store accepts the statement, or rejects it.
CrudEnvs == {NoFault, Rejected}

\* The six connections of get_stats: all six answer, one of them cannot be
\* opened, or none can.
StatsEnvs ==
    {[k \in 1..6 |-> NoFault], [k \in 1..6 |-> Unreachable]}
    \cup {[k \in 1..6 |-> IF k = j THEN Unreachable ELSE NoFault] : j \in 1..6}

\* The same, and each connection failing in each of the other ways.
StatsFaultEnvs ==
    StatsEnvs
    \cup {[k \in 1..6 |-> IF k = j THEN env ELSE NoFault] : j \in 1..6, env \in Faults}

(***************************************************************************)
(* The data generator (SEED_DATA.py).  generate_all runs its steps in      *)
(* sequence on one connection; every statement is committed on its own by  *)
(* execute_query, which rolls back and re-raises when the statement fails. *)
(***************************************************************************)
\* The tables in the order clean_database truncates them.
Tables ==
    <<"song_distribution", "artist_album", "contract", "recording_session",
      "song", "album", "engineer", "manager", "staff",
      "distribution", "studio", "producer", "artist">>

\* The tables each table refers to by a foreign key.
References(table) ==
    CASE table = "song_distribution" -> {"song", "distribution"}
      [] table = "artist_album" -> {"artist", "album"}
      [] table = "contract" -> {"artist"}
      [] table = "recording_session" -> {"artist", "producer", "studio"}
      [] table = "song" -> {"album"}
      [] table = "album" -> {"producer"}
      [] table = "engineer" -> {"staff", "studio"}
      [] table = "manager" -> {"staff"}
      [] OTHER -> {}

TableSet == {Tables[k] : k \in 1..Len(Tables)}

RECURSIVE Referencing(_, _)
\* The tables that reach one of the tables of S through foreign keys.
Referencing(S, n) ==
    LET more == S \cup {t \in TableSet : References(t) \cap S # {}}
    IN IF n = 0 \/ more = S THEN S ELSE Referencing(more, n - 1)

\* TRUNCATE TABLE table RESTART IDENTITY CASCADE
Truncate(d, table) ==
    LET gone == Referencing({table}, Len(Tables))
    IN [f \in DOMAIN d |->
          IF f \in gone THEN EmptyTable
          ELSE IF f = "seq"
               THEN [t \in DOMAIN d.seq |-> IF t \in gone THEN 0 ELSE d.seq[t]]
               ELSE d[f]]

\* The calls in an order that distributes the songs before generating them.
StepOrderDistributingFirst ==
    <<"clean", "artists", "producers", "studios", "albums",
      "distributions", "song_distributions",
      "songs_disable", "songs", "songs_enable", "recording_sessions",
      "staff", "engineers", "managers", "contracts", "artist_albums">>

\* The calls of generate_all after connect, in its order; generate_songs is
\* its three parts: disabling the trigger, the inserts, enabling the trigger.
StepOrder ==
    <<"clean", "artists", "producers", "studios", "albums",
      "songs_disable", "songs", "songs_enable", "recording_sessions",
      "staff", "engineers", "managers", "distributions",
      "song_distributions", "contracts", "artist_albums">>

Steps == {StepOrder[k] : k \in 1..Len(StepOrder)}

\* The step after a step, "done" after the last.
NextStep(step) ==
    LET k == CHOOSE j \in 1..Len(StepOrder) : StepOrder[j] = step
    IN IF k = Len(StepOrder) THEN "done" ELSE StepOrder[k + 1]

\* The table a step inserts into.
TableOf(step) ==
    CASE step = "artists" -> "artist"
      [] step = "producers" -> "producer"
      [] step = "studios" -> "studio"
      [] step = "albums" -> "album"
      [] step = "songs" -> "song"
      [] step = "recording_sessions" -> "recording_session"
      [] step = "staff" -> "staff"
      [] step = "engineers" -> "engineer"
      [] step = "managers" -> "manager"
      [] step = "distributions" -> "distribution"
      [] step = "song_distributions" -> "song_distribution"
      [] step = "contracts" -> "contract"
      [] step = "artist_albums" -> "artist_album"
      [] OTHER -> "none"

InsertSteps == {step \in Steps : TableOf(step) # "none"}

\* The counts generate_all passes to its steps (60, 50, 20, 100, 500, 150,
\* 40, 15, 10, 10, 300, 50, 150), scaled down to the model's size: as in
\* generate_all there are more staff than engineers and more engineers than
\* managers, as many contracts as most artists, and several songs per album.
Count(step) ==
    CASE step \in {"artists", "engineers", "contracts"} -> MaxGen + 1
      [] step = "staff" -> MaxGen + 2
      [] step = "managers" -> MaxGen
      [] step \in {"producers", "studios", "recording_sessions",
                   "song_distributions"} -> 1
      [] OTHER -> 2

Min(a, b) == IF a < b THEN a ELSE b

\* A DataGenerator as __init__ leaves it, with the record of what its run has
\* done so far: the rows each step attempted and produced, the count each
\* step logged, the steps that returned, the tables truncated.
NewGenerator ==
    [pc |-> "new", i |-> 0,
     artist_ids |-> <<>>, producer_ids |-> <<>>, studio_ids |-> <<>>,
     album_ids |-> <<>>, distribution_ids |-> <<>>, staff_ids |-> <<>>,
     engineer_ids |-> <<>>, manager_ids |-> <<>>,
     inserted_count |-> 0,
     attempted |-> [step \in InsertSteps |-> 0],
     produced |-> [step \in InsertSteps |-> 0],
     logged |-> [step \in {} |-> 0],
     finished |-> {}, truncated |-> {},
     last |-> [table |-> "none", key |-> <<>>],
     connected |-> FALSE, aborted |-> FALSE, failed |-> FALSE]

\* The number of iterations of a step's loop.
LoopLen(g, step) ==
    CASE step = "clean" -> Len(Tables)
      [] step \in {"songs_disable", "songs_enable"} -> 1
      [] step = "engineers" -> Min(Count(step), Len(g.staff_ids))
      [] step = "managers" ->
            LET stop == Min(Count(step) + ManagerSpan, Len(g.staff_ids))
            IN IF stop > Count(step) THEN stop - Count(step) ELSE 0
      [] step = "contracts" -> Min(Count(step), Len(g.artist_ids))
      [] OTHER -> Count(step)

\* A choice that may fall one past the identifiers of the list.
ElementsAndNext(ids) == 1..(Len(ids) + 1)

\* The identifiers random.choice(ids) chooses from.
Elements(ids) == {ids[k] : k \in 1..Len(ids)}

\* INSERT INTO studio / staff / distribution (...) RETURNING the serial id
InsertSerial(d, table, params) ==
    LET id == d.seq[table] + 1
    IN [d EXCEPT ![table] = Put(d[table], id, params), !.seq[table] = id]

\* INSERT INTO engineer / manager (...): the row's key is the staff id given.
InsertKeyed(d, table, key, params) ==
    [ok |-> key \notin DOMAIN d[table],
     db |-> [d EXCEPT ![table] = Put(d[table], key, params)]]

\* An insert that replaces the row of an existing key.
InsertOrReplace(d, table, key, params) ==
    [d EXCEPT ![table] = Put(d[table], key, params)]

\* INSERT INTO song_distribution / artist_album (...) ON CONFLICT DO NOTHING
InsertOrIgnore(d, table, key, params) ==
    IF key \in DOMAIN d[table] THEN d
    ELSE [d EXCEPT ![table] = Put(d[table], key, params)]

\* Whether the next statement of the run fails: one statement of a run does,
\* at most.
FailChoices(g) == IF g.failed THEN {FALSE} ELSE BOOLEAN

Failed(g) == [g EXCEPT !.failed = TRUE]

\* One iteration of a step's loop that issued its INSERT.
Attempt(g, step) == [g EXCEPT !.i = @ + 1, !.attempted[step] = @ + 1]

\* One iteration whose INSERT added a row.
Produced(g, step) == [Attempt(g, step) EXCEPT !.produced[step] = @ + 1]

\* The table and the natural key of the INSERT just issued.
Keyed(g, table, key) == [g EXCEPT !.last = [table |-> table, key |-> key]]

\* result[0][0] appended to the list of identifiers of the step.
Captured(g, step, field, id) == [Produced(g, step) EXCEPT ![field] = Append(@, id)]

\* An exception leaves the step: generate_all logs it and disconnects.
Abort(g) == [g EXCEPT !.pc = "done", !.aborted = TRUE]

ApiIdle == UNCHANGED <<request, response, stats>>

\* self.connect()
GenConnect ==
    /\ gen.pc = "new"
    /\ \E fails \in FailChoices(gen) :
          gen' = IF fails THEN Abort(Failed(gen))
                 ELSE [gen EXCEPT !.pc = StepOrder[1], !.connected = TRUE]
    /\ UNCHANGED db /\ ApiIdle

\* clean_database: one TRUNCATE; the first one that fails ends the loop and
\* the function returns.
GenTruncate ==
    /\ gen.pc = "clean" /\ gen.i < LoopLen(gen, "clean")
    /\ \E fails \in FailChoices(gen) :
          LET table == Tables[gen.i + 1]
          IN IF fails
             THEN /\ gen' = [Failed(gen) EXCEPT !.pc = NextStep("clean"), !.i = 0,
                                                !.finished = @ \cup {"clean"}]
                  /\ UNCHANGED db
             ELSE /\ gen' = [gen EXCEPT !.i = @ + 1, !.truncated = @ \cup {table}]
                  /\ db' = Truncate(db, table)
    /\ ApiIdle

\* The steps whose last line logs a count, and the count it logs.
Logs(g, step) ==
    IF step = "songs_enable" THEN [songs |-> g.inserted_count]
    ELSE IF step \in InsertSteps \ {"songs"}
         THEN [s \in {step} |-> Count(step)]
         ELSE [s \in {} |-> 0]

\* The loop of a step is over: the step logs its count and returns.
GenFinish ==
    /\ gen.pc \in Steps /\ gen.i = LoopLen(gen, gen.pc)
    /\ gen' = [gen EXCEPT !.pc = NextStep(gen.pc), !.i = 0,
                          !.finished = @ \cup {gen.pc},
                          !.logged = Logs(gen, gen.pc) @@ @]
    /\ UNCHANGED db /\ ApiIdle

GenArtistRow ==
    [name |-> "A", genre |-> "pop", contract_date |-> "2020-01-01",
     contract_status |-> "active", biography |-> "", nationality |-> "Spain"]

\* generate_artists: a failing INSERT leaves the step as an exception.
GenArtists ==
    /\ gen.pc = "artists" /\ gen.i < LoopLen(gen, "artists")
    /\ \E fails \in FailChoices(gen) :
          LET st == InsertArtist(db, GenArtistRow)
          IN IF fails
             THEN gen' = Abort(Failed(Attempt(gen, "artists"))) /\ UNCHANGED db
             ELSE /\ gen' = Captured(gen, "artists", "artist_ids", st.db.seq.artist)
                  /\ db' = st.db
    /\ ApiIdle

GenProducerRow ==
    [name |-> "A", specialty |-> "Pop", years_experience |-> 1,
     email |-> "a@example.org", phone |-> "1"]

\* generate_producers
GenProducers ==
    /\ gen.pc = "producers" /\ gen.i < LoopLen(gen, "producers")
    /\ \E fails \in FailChoices(gen) :
          LET d == InsertProducer(db, GenProducerRow)
          IN IF fails
             THEN gen' = Abort(Failed(Attempt(gen, "producers"))) /\ UNCHANGED db
             ELSE /\ gen' = Captured(gen, "producers", "producer_ids", d.seq.producer)
                  /\ db' = d
    /\ ApiIdle

\* generate_studios
GenStudios ==
    /\ gen.pc = "studios" /\ gen.i < LoopLen(gen, "studios")
    /\ \E fails \in FailChoices(gen) :
          LET d == InsertSerial(db, "studio", [name |-> "Studio"])
          IN IF fails
             THEN gen' = Abort(Failed(Attempt(gen, "studios"))) /\ UNCHANGED db
             ELSE /\ gen' = Captured(gen, "studios", "studio_ids", d.seq.studio)
                  /\ db' = d
    /\ ApiIdle

GenAlbumRow(producer_id) ==
    [title |-> "T1", release_date |-> 20200101, producer_id |-> producer_id,
     status |-> "released", genre |-> "pop", label_name |-> "L"]

\* generate_albums: random.choice of an empty producer list raises, and so
\* does a failing INSERT.
GenAlbums ==
    /\ gen.pc = "albums" /\ gen.i < LoopLen(gen, "albums")
    /\ IF gen.producer_ids = <<>>
       THEN gen' = Abort(gen) /\ UNCHANGED db
       ELSE \E fails \in FailChoices(gen), producer_id \in Elements(gen.producer_ids) :
               LET st == InsertAlbum(db, GenAlbumRow(producer_id))
               IN IF fails \/ ~st.ok
                  THEN /\ gen' = Abort(IF fails THEN Failed(Attempt(gen, "albums"))
                                       ELSE Attempt(gen, "albums"))
                       /\ UNCHANGED db
                  ELSE /\ gen' = Captured(gen, "albums", "album_ids", st.db.seq.album)
                       /\ db' = st.db
    /\ ApiIdle

\* generate_staff
GenStaff ==
    /\ gen.pc = "staff" /\ gen.i < LoopLen(gen, "staff")
    /\ \E fails \in FailChoices(gen) :
          LET d == InsertSerial(db, "staff", [name |-> "Staff"])
          IN IF fails
             THEN gen' = Abort(Failed(Attempt(gen, "staff"))) /\ UNCHANGED db
             ELSE /\ gen' = Captured(gen, "staff", "staff_ids", d.seq.staff)
                  /\ db' = d
    /\ ApiIdle

\* generate_songs, first part: ALTER TABLE song DISABLE TRIGGER; a failure
\* is logged as a warning.
GenSongsDisable ==
    /\ gen.pc = "songs_disable" /\ gen.i < LoopLen(gen, "songs_disable")
    /\ \E fails \in FailChoices(gen) :
          IF fails
          THEN gen' = [Failed(gen) EXCEPT !.i = @ + 1, !.inserted_count = 0]
               /\ UNCHANGED db
          ELSE /\ gen' = [gen EXCEPT !.i = @ + 1, !.inserted_count = 0]
               /\ db' = [db EXCEPT !.hit_trigger = FALSE]
    /\ ApiIdle

\* The title of the i-th song of the run: no two calls of fake.word() are
\* taken to give the same title.
GenTitle(i) == CASE i = 0 -> "S1" [] i = 1 -> "S2" [] OTHER -> "S3"

\* generate_songs, the loop: random.choice(self.album_ids) is outside the
\* try block; the INSERT is inside and counted when it does not raise.
GenSongs ==
    /\ gen.pc = "songs" /\ gen.i < LoopLen(gen, "songs")
    /\ IF gen.album_ids = <<>>
       THEN gen' = Abort(gen) /\ UNCHANGED db
       ELSE \E fails \in FailChoices(gen), album_id \in Elements(gen.album_ids),
               song_id \in 1..MaxSongId :
               LET key == <<album_id, song_id>>
                   d == GenerateSong(db, key, GenTitle(gen.i), HitThreshold)
                   g == Keyed(gen, "song", key)
                   counted == [IF d = db THEN Attempt(g, "songs")
                               ELSE Produced(g, "songs")
                                 EXCEPT !.inserted_count = @ + 1]
               IN IF fails
                  THEN gen' = Failed(Attempt(g, "songs")) /\ UNCHANGED db
                  ELSE gen' = counted /\ db' = d
    /\ ApiIdle

\* generate_songs, last part: ALTER TABLE song ENABLE TRIGGER; a failure is
\* passed over.
GenSongsEnable ==
    /\ gen.pc = "songs_enable" /\ gen.i < LoopLen(gen, "songs_enable")
    /\ \E fails \in FailChoices(gen) :
          IF fails
          THEN gen' = [Failed(gen) EXCEPT !.i = @ + 1] /\ UNCHANGED db
          ELSE /\ gen' = [gen EXCEPT !.i = @ + 1]
               /\ db' = [db EXCEPT !.hit_trigger = TRUE]
    /\ ApiIdle

\* generate_recording_sessions: the three random.choice calls are outside
\* the try block, the INSERT inside.
GenRecordingSessions ==
    /\ gen.pc = "recording_sessions" /\ gen.i < LoopLen(gen, "recording_sessions")
    /\ IF gen.artist_ids = <<>> \/ gen.producer_ids = <<>> \/ gen.studio_ids = <<>>
       THEN gen' = Abort(gen) /\ UNCHANGED db
       ELSE \E fails \in FailChoices(gen), artist_id \in Elements(gen.artist_ids),
               producer_id \in Elements(gen.producer_ids),
               studio_id \in Elements(gen.studio_ids) :
               IF fails
               THEN gen' = Failed(Attempt(gen, "recording_sessions")) /\ UNCHANGED db
               ELSE /\ gen' = Produced(gen, "recording_sessions")
                    /\ db' = InsertSerial(db, "recording_session",
                                          [artist_id |-> artist_id,
                                           producer_id |-> producer_id,
                                           studio_id |-> studio_id])
    /\ ApiIdle

\* The positions of self.staff_ids (from 0) that generate_engineers(count)
\* takes with a pool of n identifiers: range(min(count, n)).
EngineerPositions(count, n) == 0..(Min(count, n) - 1)

\* The positions generate_managers(count) takes: range(count, min(count + 10, n)).
ManagerPositions(count, n) == count..(Min(count + ManagerSpan, n) - 1)

\* generate_engineers: for i in range(min(count, len(self.staff_ids)))
GenEngineers ==
    /\ gen.pc = "engineers" /\ gen.i < LoopLen(gen, "engineers")
    /\ gen.i \in EngineerPositions(Count("engineers"), Len(gen.staff_ids))
    /\ IF gen.studio_ids = <<>>
       THEN gen' = Abort(gen) /\ UNCHANGED db
       ELSE \E fails \in FailChoices(gen), studio_id \in Elements(gen.studio_ids) :
               LET engineer_id == gen.staff_ids[gen.i + 1]
                   st == InsertKeyed(db, "engineer", engineer_id,
                                     [studio_id |-> studio_id])
               IN IF fails \/ ~st.ok
                  THEN /\ gen' = IF fails THEN Failed(Attempt(gen, "engineers"))
                                 ELSE Attempt(gen, "engineers")
                       /\ UNCHANGED db
                  ELSE /\ gen' = Captured(gen, "engineers", "engineer_ids", engineer_id)
                       /\ db' = st.db
    /\ ApiIdle

\* generate_managers: for i in range(count, min(count + 10, len(self.staff_ids)))
GenManagers ==
    /\ gen.pc = "managers" /\ gen.i < LoopLen(gen, "managers")
    /\ Count("managers") + gen.i
         \in ManagerPositions(Count("managers"), Len(gen.staff_ids))
    /\ \E fails \in FailChoices(gen) :
          LET manager_id == gen.staff_ids[Count("managers") + gen.i + 1]
              st == InsertKeyed(db, "manager", manager_id, [artists_managed |-> 1])
          IN IF fails \/ ~st.ok
             THEN /\ gen' = IF fails THEN Failed(Attempt(gen, "managers"))
                            ELSE Attempt(gen, "managers")
                  /\ UNCHANGED db
             ELSE /\ gen' = Captured(gen, "managers", "manager_ids", manager_id)
                  /\ db' = st.db
    /\ ApiIdle

\* generate_distributions: the INSERT and the append are inside the try block.
GenDistributions ==
    /\ gen.pc = "distributions" /\ gen.i < LoopLen(gen, "distributions")
    /\ \E fails \in FailChoices(gen) :
          LET d == InsertSerial(db, "distribution", [platform_name |-> "Spotify"])
          IN IF fails
             THEN gen' = Failed(Attempt(gen, "distributions")) /\ UNCHANGED db
             ELSE /\ gen' = Captured(gen, "distributions", "distribution_ids",
                                     d.seq.distribution)
                  /\ db' = d
    /\ ApiIdle

\* generate_song_distributions: a song selected at random from the table, a
\* platform from self.distribution_ids, all inside the try block.
GenSongDistributions ==
    /\ gen.pc = "song_distributions" /\ gen.i < LoopLen(gen, "song_distributions")
    /\ \/ \E fails \in FailChoices(gen) :
             \* the SELECT fails, or finds no song, or there is no platform
             /\ fails \/ DOMAIN db.song = {} \/ gen.distribution_ids = <<>>
             /\ gen' = [IF fails THEN Failed(gen) ELSE gen EXCEPT !.i = @ + 1]
             /\ UNCHANGED db
       \/ \E fails \in FailChoices(gen), song \in DOMAIN db.song,
             distribution_id \in Elements(gen.distribution_ids) :
             LET key == <<song[1], song[2], distribution_id>>
                 d == InsertOrIgnore(db, "song_distribution", key,
                                     [status |-> "active"])
                 g == Keyed(gen, "song_distribution", key)
             IN IF fails
                THEN gen' = Failed(Attempt(g, "song_distributions")) /\ UNCHANGED db
                ELSE /\ gen' = IF d = db THEN Attempt(g, "song_distributions")
                               ELSE Produced(g, "song_distributions")
                     /\ db' = d
    /\ ApiIdle

\* generate_contracts: for i in range(min(count, len(self.artist_ids)))
GenContracts ==
    /\ gen.pc = "contracts" /\ gen.i < LoopLen(gen, "contracts")
    /\ \E fails \in FailChoices(gen) :
          LET params == [artist_id |-> gen.artist_ids[gen.i + 1],
                         start_date |-> 20200101, status |-> "active"]
              d == InsertContract(db, params)
              g == Keyed(gen, "contract", ContractKey(params))
          IN IF fails
             THEN gen' = Failed(Attempt(g, "contracts")) /\ UNCHANGED db
             ELSE /\ gen' = IF d.contract = db.contract THEN Attempt(g, "contracts")
                            ELSE Produced(g, "contracts")
                  /\ db' = d
    /\ ApiIdle

\* The role of the i-th relation of the run: successive calls of
\* random.choice are taken to give different roles.
GenRole(i) == IF i = 0 THEN "featured" ELSE "guest"

\* generate_artist_albums: the random.choice calls and the INSERT are inside
\* the try block.
GenArtistAlbums ==
    /\ gen.pc = "artist_albums" /\ gen.i < LoopLen(gen, "artist_albums")
    /\ IF gen.artist_ids = <<>> \/ gen.album_ids = <<>>
       THEN gen' = [gen EXCEPT !.i = @ + 1] /\ UNCHANGED db
       ELSE \E fails \in FailChoices(gen), artist_id \in Elements(gen.artist_ids),
               album_id \in Elements(gen.album_ids) :
               LET key == <<artist_id, album_id>>
                   d == InsertOrIgnore(db, "artist_album", key,
                                       [role |-> GenRole(gen.i)])
                   g == Keyed(gen, "artist_album", key)
               IN IF fails
                  THEN gen' = Failed(Attempt(g, "artist_albums")) /\ UNCHANGED db
                  ELSE /\ gen' = IF d = db THEN Attempt(g, "artist_albums")
                                 ELSE Produced(g, "artist_albums")
                       /\ db' = d
    /\ ApiIdle

(***************************************************************************)
(* The state: the store, the last request and the response it was given.   *)
(***************************************************************************)
Request(op, id, body, envs, album_id) ==
    [op |-> op, id |-> id, body |-> body, envs |-> envs, album_id |-> album_id]

Rows(d) ==
    d.seq.artist + d.seq.album + d.seq.producer + d.seq.contract
    + Cardinality(DOMAIN d.song)

NoRequest == Request("none", 0, JsonNull, <<>>, "")

NoResponse ==
    [status |-> 0, body |-> NoFields, raised |-> "none", opened |-> 0, closed |-> 0]

\* The results get_stats has collected so far: none when no /api/stats
\* request is in progress.
NoStats == <<>>

Init ==
    /\ db = EmptyDb
    /\ request = NoRequest
    /\ response = NoResponse
    /\ gen = NewGenerator
    /\ stats = NoStats

\* The handler of the request runs and Flask sends what it hands back.
Handle(req, h) ==
    /\ request' = req
    /\ response' = [status |-> h.status, body |-> h.body, raised |-> h.raised,
                    opened |-> h.opened, closed |-> h.closed]
    /\ db' = h.db
    /\ UNCHANGED <<gen, stats>>

ListArtists(E) ==
    \E env \in E, rows \in SelectArtists(db) :
        Handle(Request("get_artists", 0, JsonNull, <<env>>, ""),
               get_artists(db, env, rows))

GetArtist(E) ==
    \E env \in E, id \in Ids :
        Handle(Request("get_artist", id, JsonNull, <<env>>, ""),
               get_artist(db, env, id))

CreateArtist(E, maxRows) ==
    \E env \in E, data \in ArtistBodies :
        /\ db.seq.artist < MaxId /\ Rows(db) < maxRows
        /\ Handle(Request("create_artist", 0, data, <<env>>, ""),
                  create_artist(db, env, data))

UpdateArtistById(E) ==
    \E env \in E, id \in Ids, data \in ArtistUpdates :
        Handle(Request("update_artist", id, data, <<env>>, ""),
               update_artist(db, env, id, data))

DeleteArtistById(E) ==
    \E env \in E, id \in Ids :
        Handle(Request("delete_artist", id, JsonNull, <<env>>, ""),
               delete_artist(db, env, id))

ListAlbums(E) ==
    \E env \in E, rows \in SelectAlbums(db) :
        Handle(Request("get_albums", 0, JsonNull, <<env>>, ""),
               get_albums(db, env, rows))

GetAlbum(E) ==
    \E env \in E, id \in Ids :
        Handle(Request("get_album", id, JsonNull, <<env>>, ""),
               get_album(db, env, id))

CreateAlbum(E, maxRows) ==
    \E env \in E, data \in AlbumBodies :
        /\ db.seq.album < MaxId /\ Rows(db) < maxRows
        /\ Handle(Request("create_album", 0, data, <<env>>, ""),
                  create_album(db, env, data))

UpdateAlbumById(E) ==
    \E env \in E, id \in Ids, data \in AlbumUpdates :
        Handle(Request("update_album", id, data, <<env>>, ""),
               update_album(db, env, id, data))

ListSongs(E) ==
    \E env \in E, album_id \in AlbumIdParams :
        \E rows \in SelectSongs(db, album_id) :
            Handle(Request("get_songs", 0, JsonNull, <<env>>, album_id),
                   get_songs(db, env, album_id, rows))

ListHitSongs(E) ==
    \E env \in E, rows \in SelectHitSongs(db) :
        Handle(Request("get_hit_songs", 0, JsonNull, <<env>>, ""),
               get_hit_songs(db, env, rows))

GetSong ==
    \E album_id \in Ids, song_id \in {1} :
        Handle(Request("get_song", song_id, JsonNull, <<>>,
                       IF album_id = 1 THEN "1" ELSE "2"),
               get_song(db, album_id, song_id))

CreateSong(E, maxRows) ==
    \E env \in E, data \in SongBodies :
        /\ Rows(db) < maxRows
        /\ Handle(Request("create_song", 0, data, <<env>>, ""),
                  create_song(db, env, data))

ListProducers(E) ==
    \E env \in E, rows \in SelectProducers(db) :
        Handle(Request("get_producers", 0, JsonNull, <<env>>, ""),
               get_producers(db, env, rows))

GetProducer(E) ==
    \E env \in E, id \in Ids :
        Handle(Request("get_producer", id, JsonNull, <<env>>, ""),
               get_producer(db, env, id))

Stats(EE) ==
    \E envs \in EE :
        Handle(Request("get_stats", 0, JsonNull, envs, ""), get_stats(db, envs))

Health(E) ==
    \E env \in E :
        Handle(Request("health", 0, JsonNull, <<env>>, ""), health(db, env))

Index == Handle(Request("index", 0, JsonNull, <<>>, ""), index(db))

\* One row of generate_producers, generate_contracts, generate_songs.
GenerateProducer(maxRows) ==
    \E params \in ProducerRows :
        /\ db.seq.producer < MaxId /\ Rows(db) < maxRows
        /\ Handle(Request("generate_producer", 0, JsonNull, <<>>, ""),
                  Reply(InsertProducer(db, params), 0, NoFields, 0, 0))

\* generate_contracts derives the status from the dates: a contract that
\* has expired started at the earlier date.
GenerateContract(maxRows) ==
    \E artist_id \in DOMAIN db.artist, start_date \in StartDates,
       status \in ContractStatuses :
        /\ db.seq.contract < MaxId /\ Rows(db) < maxRows
        /\ status = "expired" => \A other \in StartDates : start_date <= other
        /\ Handle(Request("generate_contract", 0, JsonNull, <<>>, ""),
                  Reply(InsertContract(db, [artist_id |-> artist_id,
                                            start_date |-> start_date,
                                            status |-> status]),
                        0, NoFields, 0, 0))

GenerateSongRow(maxRows) ==
    \E album_id \in DOMAIN db.album, song_id \in 1..MaxSongId,
       streams_count \in StreamCounts :
        /\ Rows(db) < maxRows
        /\ Handle(Request("generate_song", 0, JsonNull, <<>>, ""),
                  Reply(GenerateSong(db, <<album_id, song_id>>, "S3", streams_count),
                        0, NoFields, 0, 0))

(***************************************************************************)
(* The writing handlers and the lookups by id, on a store that accepts or  *)
(* rejects each statement.                                                 *)
(***************************************************************************)
Next ==
    \/ CreateArtist(CrudEnvs, MaxRowsCrud)
    \/ UpdateArtistById(CrudEnvs)
    \/ DeleteArtistById(CrudEnvs)
    \/ GetArtist({NoFault})
    \/ CreateAlbum(CrudEnvs, MaxRowsCrud)
    \/ UpdateAlbumById(CrudEnvs)
    \/ GetAlbum({NoFault})
    \/ CreateSong(CrudEnvs, MaxRowsCrud)
    \/ GetSong
    \/ GenerateProducer(MaxRowsCrud)

Spec == Init /\ [][Next]_vars

(***************************************************************************)
(* The lists and the statistics, on a store that answers or is unreachable.*)
(***************************************************************************)
NextRead ==
    \/ CreateArtist({NoFault}, MaxRowsRead)
    \/ CreateAlbum({NoFault}, MaxRowsRead)
    \/ GenerateProducer(MaxRowsRead)
    \/ GenerateContract(MaxRowsRead)
    \/ GenerateSongRow(MaxRowsRead)
    \/ ListArtists(ReadEnvs)
    \/ ListAlbums(ReadEnvs)
    \/ ListSongs(ReadEnvs)
    \/ ListHitSongs(ReadEnvs)
    \/ ListProducers(ReadEnvs)
    \/ GetProducer(ReadEnvs)
    \/ Stats(StatsEnvs)
    \/ Health(ReadEnvs)
    \/ Index

SpecRead == Init /\ [][NextRead]_vars

(***************************************************************************)
(* Every handler with a connection that fails at any step.                 *)
(***************************************************************************)
NextFault ==
    \/ CreateArtist(Faults, MaxRowsFault)
    \/ UpdateArtistById(Faults)
    \/ DeleteArtistById(Faults)
    \/ GetArtist(Faults)
    \/ ListArtists(Faults)
    \/ CreateAlbum(Faults, MaxRowsFault)
    \/ UpdateAlbumById(Faults)
    \/ GetAlbum(Faults)
    \/ ListAlbums(Faults)
    \/ CreateSong(Faults, MaxRowsFault)
    \/ ListSongs(Faults)
    \/ ListHitSongs(Faults)
    \/ ListProducers(Faults)
    \/ GetProducer(Faults)
    \/ Stats(StatsFaultEnvs)
    \/ Health(Faults)
    \/ GenerateProducer(MaxRowsFault)

SpecFault == Init /\ [][NextFault]_vars

(***************************************************************************)
(* The documented contract of the resources, as the properties below use   *)
(* it.                                                                     *)
(***************************************************************************)
ArtistColumns ==
    {"name", "genre", "contract_date", "contract_status", "biography", "nationality"}

ArtistDefaults == [contract_status |-> "active", biography |-> ""]

AlbumColumns == {"title", "release_date", "producer_id", "status", "genre", "label_name"}

AlbumDefaults == [status |-> "draft", label_name |-> ""]

SongColumns == {"title", "duration", "composer", "streams_count", "is_hit"}

SongDefaults == [streams_count |-> 0, is_hit |-> FALSE]

DocumentedAllowed(op) ==
    IF op = "update_artist"
    THEN {"name", "genre", "contract_status", "biography", "nationality"}
    ELSE {"title", "status", "genre", "label_name"}

DocumentedRequired(op) ==
    CASE op = "create_artist" -> {"name", "genre", "contract_date", "nationality"}
      [] op = "create_album" -> {"title", "release_date", "producer_id", "genre"}
      [] OTHER -> {"album_id", "song_id", "title", "duration", "composer"}

\* The columns a Create documents for a body: the supplied fields, and the
\* defaults of the optional fields it omits.
Supplied(data, columns, defaults) ==
    [c \in columns |-> IF c \in DOMAIN data.fields THEN data.fields[c] ELSE defaults[c]]

Matches(record, expected) ==
    \A c \in DOMAIN expected : c \in DOMAIN record /\ record[c] = expected[c]

Created(op) == request.op = op /\ response.status = 201

ArtistCreatedThenFound ==
    Created("create_artist") =>
        LET got == get_artist(db, NoFault, response.body.artist_id)
        IN /\ got.status = 200
           /\ got.body.artist_id = response.body.artist_id
           /\ Matches(got.body, Supplied(request.body, ArtistColumns, ArtistDefaults))

AlbumCreatedThenFound ==
    Created("create_album") =>
        LET got == get_album(db, NoFault, response.body.album_id)
        IN /\ got.status = 200
           /\ got.body.album_id = response.body.album_id
           /\ Matches(got.body, Supplied(request.body, AlbumColumns, AlbumDefaults))

\* C1 as stated: for Artist, Album and Song, the identifier a successful Create
\* returns resolves through Get-by-id to the supplied fields and the defaults
\* of the omitted ones.
C1_CreateThenGetById ==
    /\ ArtistCreatedThenFound
    /\ AlbumCreatedThenFound
    /\ Created("create_song") =>
          LET got == get_song(db, response.body.album_id, response.body.song_id)
          IN /\ got.status = 200
             /\ Matches(got.body, Supplied(request.body, SongColumns, SongDefaults))

\* C1 (amended): for Artist and Album the identifier a successful Create returns
\* resolves through Get-by-id to the supplied fields and the defaults of the
\* omitted ones.  Song has no Get-by-id (the request is answered 404): the
\* identifiers returned are the supplied key, the row stored under that key
\* holds the supplied fields and the defaults streams_count 0 and is_hit
\* false, and the Song list filtered by that album returns it.
C1_CreateThenGetByIdOrList ==
    /\ ArtistCreatedThenFound
    /\ AlbumCreatedThenFound
    /\ Created("create_song") =>
          LET key == <<response.body.album_id, response.body.song_id>>
              expected == Supplied(request.body, SongColumns, SongDefaults)
              album_id == CHOOSE text \in {"1", "2", "3"} : AlbumIdOf(text) = key[1]
          IN /\ key = <<request.body.fields["album_id"], request.body.fields["song_id"]>>
             /\ get_song(db, key[1], key[2]).status = 404
             /\ key \in DOMAIN db.song /\ Matches(db.song[key], expected)
             /\ \A rows \in SelectSongs(db, album_id) :
                   LET got == get_songs(db, NoFault, album_id, rows)
                   IN /\ got.status = 200
                      /\ \E i \in 1..Len(got.body.rows) :
                            /\ got.body.rows[i].album_id = key[1]
                            /\ got.body.rows[i].song_id = key[2]
                            /\ Matches(got.body.rows[i], expected)

\* An artist was created from a body that omits contract_status and biography.
C1_Witness ==
    /\ Created("create_artist")
    /\ DOMAIN request.body.fields \cap {"contract_status", "biography"} = {}
    /\ db.artist[response.body.artist_id].contract_status = "active"
    /\ db.artist[response.body.artist_id].biography = ""

IsUpdate(req) == req.op \in {"update_artist", "update_album"}

UpdatedTable(op) == IF op = "update_artist" THEN "artist" ELSE "album"

PresentAllowed(req) == DocumentedAllowed(req.op) \cap DOMAIN req.body.fields

UpdateStep ==
    LET t == UpdatedTable(request'.op)
        id == request'.id
        applied == response'.status = 200
    IN /\ \A other \in DOMAIN db \ {t} : db'[other] = db[other]
       /\ DOMAIN db'[t] = DOMAIN db[t]
       /\ \A k \in DOMAIN db[t] \ {id} : db'[t][k] = db[t][k]
       /\ id \in DOMAIN db[t] =>
             \A c \in DOMAIN db[t][id] :
                db'[t][id][c] = IF applied /\ c \in PresentAllowed(request')
                                THEN request'.body.fields[c]
                                ELSE db[t][id][c]
       /\ request'.envs = <<NoFault>> =>
             response'.status = 200 /\ response'.raised = "none"

\* C2: an Update of an artist or album whose body holds at least one allow-listed
\* field gives exactly the allow-listed fields of the body their new values on
\* the row with the given id when the store accepts the statement (200); every
\* other column of the row, every other row and every other table stay as they
\* were, and the fields outside the allow-list are ignored without an error.
C2_UpdateChangesOnlyAllowed ==
    [][(IsUpdate(request') /\ request'.body.kind = "object"
        /\ PresentAllowed(request') # {}) => UpdateStep]_vars

\* An artist was renamed by a body that also holds artist_id and contract_date,
\* next to another artist.
C2_Witness ==
    /\ request.op = "update_artist" /\ response.status = 200
    /\ request.id \in DOMAIN db.artist
    /\ {"name", "artist_id", "contract_date"} \subseteq DOMAIN request.body.fields
    /\ db.artist[request.id].name = request.body.fields["name"]
    /\ db.artist[request.id].contract_date # request.body.fields["contract_date"]
    /\ DOMAIN db.artist # {request.id}

C4_DeleteReportsRowsAffected ==
    [][(request'.op = "delete_artist" /\ request'.envs = <<NoFault>>) =>
         /\ response'.status = 200
         /\ IF request'.id \in DOMAIN db.artist
            THEN get_artist(db', NoFault, request'.id).status = 404
            ELSE \A other \in DOMAIN db.artist :
                    LET removing == delete_artist(db, NoFault, other)
                    IN <<removing.status, removing.body>>
                       # <<response'.status, response'.body>>]_vars

Listed(op) == request.op = op /\ response.status = 200

ListedRows == response.body.rows

Positions == {p \in (1..Len(ListedRows)) \X (1..Len(ListedRows)) : p[1] < p[2]}

DocumentedLists ==
    /\ Listed("get_artists") =>
          /\ Len(ListedRows) <= 100
          /\ \A p \in Positions :
                Collate(ListedRows[p[1]].name) <= Collate(ListedRows[p[2]].name)
    /\ Listed("get_albums") =>
          /\ Len(ListedRows) <= 100
          /\ \A p \in Positions :
                ListedRows[p[1]].release_date >= ListedRows[p[2]].release_date
    /\ Listed("get_songs") =>
          /\ Len(ListedRows) <= 200
          /\ \A p \in Positions :
                \/ ListedRows[p[1]].album_id < ListedRows[p[2]].album_id
                \/ /\ ListedRows[p[1]].album_id = ListedRows[p[2]].album_id
                   /\ ListedRows[p[1]].song_id < ListedRows[p[2]].song_id
    /\ Listed("get_hit_songs") =>
          /\ Len(ListedRows) <= 50
          /\ \A p \in Positions :
                ListedRows[p[1]].streams_count >= ListedRows[p[2]].streams_count

RECURSIVE StreamTotal(_)
StreamTotal(songs) ==
    IF DOMAIN songs = {} THEN 0
    ELSE LET key == CHOOSE k \in DOMAIN songs : TRUE
         IN songs[key].streams_count + StreamTotal(Drop(songs, {key}))

ArtistsUnderActiveContract ==
    DOMAIN db.artist
    \cap {db.contract[c].artist_id :
            c \in {x \in DOMAIN db.contract : db.contract[x].status = "active"}}

StatsAnswered ==
    request.op = "get_stats" /\ \A k \in 1..6 : request.envs[k] = NoFault

\* C6: when the store answers the six queries of /api/stats, total_streams is
\* the sum of streams_count over the Song rows (0 without songs), active_artists
\* the number of distinct artists with a Contract row of status active, and
\* total_artists, total_albums, total_songs and total_hits the row counts.
C6_StatsMatchStore ==
    StatsAnswered =>
        /\ response.status = 200
        /\ response.body.total_streams = StreamTotal(db.song)
        /\ response.body.active_artists = Cardinality(ArtistsUnderActiveContract)
        /\ response.body.total_artists = Cardinality(DOMAIN db.artist)
        /\ response.body.total_albums = Cardinality(DOMAIN db.album)
        /\ response.body.total_songs = Cardinality(DOMAIN db.song)
        /\ response.body.total_hits =
              Cardinality({k \in DOMAIN db.song : db.song[k].is_hit})

\* The statistics of a store where one artist holds two active contracts.
C6_Witness ==
    /\ StatsAnswered
    /\ response.body.active_artists = 1
    /\ \E c1, c2 \in DOMAIN db.contract :
          /\ c1 # c2
          /\ db.contract[c1].artist_id = db.contract[c2].artist_id
          /\ db.contract[c1].status = "active" /\ db.contract[c2].status = "active"

IsCreate(req) == req.op \in {"create_artist", "create_album", "create_song"}

LacksRequired(req) ==
    \E field \in DocumentedRequired(req.op) :
        ~(req.body.kind = "object" /\ field \in DOMAIN req.body.fields)

\* C7 as stated: a Create whose body lacks a required field, whatever the body
\* is, is answered 400 and inserts no row.
C7_MissingFieldRejected ==
    [][(IsCreate(request') /\ LacksRequired(request'))
       => (response'.status = 400 /\ db' = db)]_vars

ApiOps ==
    {"get_artists", "get_artist", "create_artist", "update_artist", "delete_artist",
     "get_albums", "get_album", "create_album", "update_album",
     "get_songs", "get_hit_songs", "create_song",
     "get_producers", "get_producer", "get_stats", "health"}

WritingOps ==
    {"create_artist", "update_artist", "delete_artist",
     "create_album", "update_album", "create_song"}

\* The body passes the handler's validation, so that the handler goes on to
\* open a connection.
Validated(req) ==
    CASE IsCreate(req) -> ~LacksRequired(req)
      [] IsUpdate(req) -> req.body.kind = "object" /\ PresentAllowed(req) # {}
      [] OTHER -> TRUE

\* A connection of the request cannot be opened, or its statement fails.
StorageFails(req) ==
    /\ req.op \in ApiOps /\ Validated(req)
    /\ \E k \in DOMAIN req.envs :
          \/ req.envs[k].at \in {"connect", "cursor", "execute"}
          \/ req.envs[k].at = "commit" /\ req.op \in WritingOps

\* C8 as stated: when the store is unreachable or a query fails, every data
\* endpoint answers with a server error and an error payload.
C8_StorageFailureIsServerError ==
    StorageFails(request) =>
        /\ response.status = 500
        /\ request.op # "health" => "error" \in DOMAIN response.body

\* C9 as stated: every connection a request opened is closed when its handler
\* returns or raises.
C9_ConnectionsClosed ==
    request.op \in ApiOps => response.closed = response.opened

\* C10 as stated: every failure of a data-access operation is caught in the
\* handler, nothing is written, an error payload is returned and no exception
\* leaves the handler.
C10_FailuresCaught ==
    [][StorageFails(request') =>
         /\ response'.raised = "none"
         /\ response'.status >= 400
         /\ request'.op # "health" => "error" \in DOMAIN response'.body
         /\ db' = db]_vars

(***************************************************************************)
(* One run of the data generator on the store.                             *)
(***************************************************************************)
\* A store that earlier requests and an earlier run have left rows in.
LeftoverDb ==
    LET d1 == InsertProducer(EmptyDb, GenProducerRow)
        d2 == InsertArtist(d1, GenArtistRow).db
        d3 == InsertAlbum(d2, GenAlbumRow(1)).db
        d4 == GenerateSong(d3, <<1, 1>>, "S3", HitThreshold)
        d5 == InsertContract(d4, [artist_id |-> 1, start_date |-> 20200101,
                                  status |-> "active"])
    IN InsertOrIgnore(d5, "artist_album", <<1, 1>>, [role |-> "featured"])

InitGen ==
    /\ db \in {EmptyDb, LeftoverDb}
    /\ request = NoRequest
    /\ response = NoResponse
    /\ gen = NewGenerator
    /\ stats = NoStats

\* One statement of generate_all.
NextGen ==
    \/ GenConnect \/ GenTruncate \/ GenFinish
    \/ GenArtists \/ GenProducers \/ GenStudios \/ GenAlbums
    \/ GenSongsDisable \/ GenSongs \/ GenSongsEnable
    \/ GenRecordingSessions \/ GenStaff \/ GenEngineers \/ GenManagers
    \/ GenDistributions \/ GenSongDistributions \/ GenContracts
    \/ GenArtistAlbums

SpecGen == InitGen /\ [][NextGen]_vars

(***************************************************************************)
(* The generator's foreign keys.                                           *)
(***************************************************************************)
\* The rows of the store whose foreign key names no row.
Orphans(d) ==
    {<<"album", k>> : k \in {a \in DOMAIN d.album :
                               d.album[a].producer_id \notin DOMAIN d.producer}}
    \cup {<<"song", k>> : k \in {x \in DOMAIN d.song : x[1] \notin DOMAIN d.album}}
    \cup {<<"recording_session", k>> :
             k \in {x \in DOMAIN d.recording_session :
                      \/ d.recording_session[x].artist_id \notin DOMAIN d.artist
                      \/ d.recording_session[x].producer_id \notin DOMAIN d.producer
                      \/ d.recording_session[x].studio_id \notin DOMAIN d.studio}}
    \cup {<<"engineer", k>> :
             k \in {x \in DOMAIN d.engineer :
                      \/ x \notin DOMAIN d.staff
                      \/ d.engineer[x].studio_id \notin DOMAIN d.studio}}
    \cup {<<"manager", k>> : k \in {x \in DOMAIN d.manager : x \notin DOMAIN d.staff}}
    \cup {<<"song_distribution", k>> :
             k \in {x \in DOMAIN d.song_distribution :
                      \/ <<x[1], x[2]>> \notin DOMAIN d.song
                      \/ x[3] \notin DOMAIN d.distribution}}
    \cup {<<"contract", k>> :
             k \in {x \in DOMAIN d.contract :
                      d.contract[x].artist_id \notin DOMAIN d.artist}}
    \cup {<<"artist_album", k>> :
             k \in {x \in DOMAIN d.artist_album :
                      x[1] \notin DOMAIN d.artist \/ x[2] \notin DOMAIN d.album}}

\* The identifiers a list of the generator holds.
Held(field) == {gen[field][k] : k \in 1..Len(gen[field])}

ResetDone == gen.truncated = TableSet

\* C11: in a run whose reset truncated every table, no row of the store has
\* a foreign key that names no row, at any point of the run and when it has
\* ended, and every identifier the generator holds for a foreign key is the
\* key of a row its own run inserted.
C11_NoOrphanedForeignKeys ==
    ResetDone =>
        /\ Orphans(db) = {}
        /\ Held("artist_ids") = DOMAIN db.artist
        /\ Held("producer_ids") = DOMAIN db.producer
        /\ Held("studio_ids") = DOMAIN db.studio
        /\ Held("album_ids") = DOMAIN db.album
        /\ Held("distribution_ids") = DOMAIN db.distribution
        /\ Held("staff_ids") = DOMAIN db.staff
        /\ Held("engineer_ids") = DOMAIN db.engineer
        /\ Held("manager_ids") = DOMAIN db.manager

\* A run that reset the store ended with rows in every referencing table.
C11_Witness ==
    /\ gen.pc = "done" /\ ~gen.aborted /\ ResetDone
    /\ \A table \in {t \in TableSet : References(t) # {}} : DOMAIN db[table] # {}

(***************************************************************************)
(* The generator's inserts that ignore a conflict.                         *)
(***************************************************************************)
IdempotentSteps == {"songs", "song_distributions", "contracts", "artist_albums"}

\* The natural keys of the rows of a table.
NaturalKeys(d, table) ==
    IF table = "contract"
    THEN {<<d.contract[c].artist_id, d.contract[c].start_date>> : c \in DOMAIN d.contract}
    ELSE DOMAIN d[table]

\* No two contracts have the same natural key (the other three tables are
\* functions of their natural key).
OneRowPerKey(d) ==
    \A c1, c2 \in DOMAIN d.contract :
        (d.contract[c1].artist_id = d.contract[c2].artist_id
         /\ d.contract[c1].start_date = d.contract[c2].start_date) => c1 = c2

\* The step issues its INSERT.
Attempts(step) == gen.pc = step /\ gen'.attempted[step] = gen.attempted[step] + 1

MaxRowsStats == 6

\* The next query of get_stats runs on its own connection and is answered
\* from the store as it is now.
StatsQuery ==
    /\ Len(stats) < 6
    /\ stats' = Append(stats, execute_query(NoFault, StatsQueries(db)[Len(stats) + 1],
                                            TRUE))
    /\ UNCHANGED <<db, request, response, gen>>

\* return jsonify(stats)
StatsReturn ==
    /\ Len(stats) = 6
    /\ LET h == StatsReply(db, stats)
       IN /\ request' = Request("get_stats", 0, JsonNull, [k \in 1..6 |-> NoFault], "")
          /\ response' = [status |-> h.status, body |-> h.body, raised |-> h.raised,
                          opened |-> h.opened, closed |-> h.closed]
    /\ stats' = NoStats
    /\ UNCHANGED <<db, gen>>

\* One TRUNCATE of the generator's reset.
TruncateTable ==
    \E table \in TableSet :
        /\ db # Truncate(db, table)
        /\ Handle(Request("truncate", 0, JsonNull, <<>>, ""),
                  Reply(Truncate(db, table), 0, NoFields, 0, 0))

\* One row of generate_artists, of generate_songs, of generate_contracts.
GenerateArtist ==
    /\ db.seq.artist < MaxId /\ Rows(db) < MaxRowsStats
    /\ Handle(Request("generate_artist", 0, JsonNull, <<>>, ""),
              Reply(InsertArtist(db, GenArtistRow).db, 0, NoFields, 0, 0))

GenerateHitSong ==
    \E album_id \in DOMAIN db.album, song_id \in 1..MaxSongId :
        /\ Rows(db) < MaxRowsStats
        /\ Handle(Request("generate_song", 0, JsonNull, <<>>, ""),
                  Reply(GenerateSong(db, <<album_id, song_id>>, GenTitle(0),
                                     HitThreshold),
                        0, NoFields, 0, 0))

GenerateActiveContract ==
    \E artist_id \in DOMAIN db.artist :
        /\ db.seq.contract < MaxId /\ Rows(db) < MaxRowsStats
        /\ Handle(Request("generate_contract", 0, JsonNull, <<>>, ""),
                  Reply(InsertContract(db, [artist_id |-> artist_id,
                                            start_date |-> 20200101,
                                            status |-> "active"]),
                        0, NoFields, 0, 0))

NextStats ==
    \/ StatsQuery
    \/ StatsReturn
    \/ GenerateArtist
    \/ GenerateHitSong
    \/ GenerateActiveContract
    \/ TruncateTable

\* The request arrives at a store that is empty or holds an earlier run.
SpecStats == InitGen /\ [][NextStats]_vars

(***************************************************************************)
(* The staff pool, the trigger, failures, order, reset and logged counts.  *)
(***************************************************************************)
\* C13 as stated: no staff identifier is both an engineer's and a manager's,
\* and both lists hold identifiers of staff_ids only.
C13_StaffRangesDisjoint ==
    /\ Held("engineer_ids") \cap Held("manager_ids") = {}
    /\ Held("engineer_ids") \cup Held("manager_ids") \subseteq Held("staff_ids")

\* generate_songs has ended, by returning or by an exception.
SongsEnded ==
    gen.pc \notin {"new", "clean", "artists", "producers", "studios", "albums",
                   "songs_disable", "songs", "songs_enable"}

\* C14 as stated: once generate_songs has ended, however it ended, the
\* hit/distribution trigger is enabled.
C14_TriggerRestored == SongsEnded => db.hit_trigger

\* C15 as stated: a run that connected goes through every step to its end,
\* whichever INSERT fails.
C15_RunContinuesPastFailure ==
    (gen.pc = "done" /\ gen.connected) => (~gen.aborted /\ gen.finished = Steps)

\* The table a step of the run works on.
StepTable(step) ==
    IF step \in {"songs_disable", "songs", "songs_enable"} THEN "song"
    ELSE TableOf(step)

\* The steps of each table.
StepsOf == [table \in TableSet |-> {step \in Steps : StepTable(step) = table}]

\* The run is in a step of the table, or has been.
Begun(table) ==
    gen.pc \in StepsOf[table] \/ StepsOf[table] \cap gen.finished # {}

\* Every step of the table has returned.
Generated(table) == StepsOf[table] \subseteq gen.finished

Independent == {"artist", "producer", "studio", "distribution", "staff"}

SecondOrder == {"song_distribution", "contract", "artist_album"}

SecondOrderLast ==
    \A table \in SecondOrder :
        Begun(table) => \A parent \in {"song", "distribution", "artist", "album"} :
                            Generated(parent)

C17_ResetBeforeInserts ==
    /\ \A table \in gen.truncated, child \in TableSet :
          table \in References(child) => child \in gen.truncated
    /\ (\E step \in InsertSteps : gen.attempted[step] > 0) => ResetDone

\* C18 as stated: the count a step logs is the number of rows it produced.
C18_LoggedCountIsProduced ==
    \A step \in DOMAIN gen.logged : gen.logged[step] = gen.produced[step]

\* C19 as stated: the values of one /api/stats response are consistent with
\* each other, whatever is committed between the six queries.
C19_StatsMutuallyConsistent ==
    (request.op = "get_stats" /\ response.status = 200) =>
        /\ response.body.total_hits <= response.body.total_songs
        /\ response.body.total_songs = 0 => response.body.total_streams = 0
        /\ response.body.active_artists <= response.body.total_artists

====
